---------------------------- MODULE Spec2Model ----------------------------
(***************************************************************************)
(* Model of scripts/gen_random.c: the generator of filtered random words   *)
(* for the random(4) driver.                                               *)
(*                                                                         *)
(* A u32 is modelled as the tuple of its four bytes, least significant     *)
(* byte first.  On a little-endian build this is also the order of the     *)
(* bytes in memory, which is what accept() walks with its char pointer and *)
(* what a partial read() overwrites.                                       *)
(***************************************************************************)
EXTENDS Integers, Sequences, FiniteSets

(***************************************************************************)
(* Program constants                                                       *)
(***************************************************************************)
INPUT_POOL_SHIFT == 12
INPUT_POOL_WORDS == 2 ^ (INPUT_POOL_SHIFT - 5)
OUTPUT_POOL_SHIFT == 10
OUTPUT_POOL_WORDS == 2 ^ (OUTPUT_POOL_SHIFT - 5)
TOTAL_POOL_WORDS == INPUT_POOL_WORDS + 2 * OUTPUT_POOL_WORDS
ARRAY_ROWS == 8
ARRAY_WORDS == 4 * ARRAY_ROWS
PER_LINE == 8
MIN == 8
MAX == 32 - MIN

(***************************************************************************)
(* Bounds of the model.  The blocks of the program hold 192 and 40 words;  *)
(* the model generates blocks of at most MaxPoolWords and MaxConstWords    *)
(* words, and the print phase is also explored on its own for every block  *)
(* length up to MaxPrintWords.                                             *)
(***************************************************************************)
MaxPoolWords == 2
MaxConstWords == 1
MaxPrintWords == 17

Min2(a, b) == IF a < b THEN a ELSE b

(***************************************************************************)
(* 32-bit words as byte tuples                                             *)
(***************************************************************************)
Zero == <<0, 0, 0, 0>>

\* bit k (0 = least significant) of byte b
Bit(b, k) == (b \div (2 ^ k)) % 2

\* the table of a & b on bytes, computed bit by bit
And8Table ==
  [a \in 0..255 |-> [b \in 0..255 |->
      Bit(a, 0) * Bit(b, 0)      + 2 * Bit(a, 1) * Bit(b, 1)
    + 4 * Bit(a, 2) * Bit(b, 2)  + 8 * Bit(a, 3) * Bit(b, 3)
    + 16 * Bit(a, 4) * Bit(b, 4) + 32 * Bit(a, 5) * Bit(b, 5)
    + 64 * Bit(a, 6) * Bit(b, 6) + 128 * Bit(a, 7) * Bit(b, 7)]]

\* a & b on one byte
And8(a, b) == And8Table[a][b]

\* Mutation of AndWord: the operands truncated to 16 bits
AndWord_Low16(a, b) == <<And8(a[1], b[1]), And8(a[2], b[2]), 0, 0>>

\* a & b on u32
AndWord(a, b) == <<And8(a[1], b[1]), And8(a[2], b[2]),
                   And8(a[3], b[3]), And8(a[4], b[4])>>

\* w - 1 on u32 (modulo 2^32): the borrow runs from the low byte upward
Dec32(w) ==
  IF w[1] > 0 THEN <<w[1] - 1, w[2], w[3], w[4]>>
  ELSE IF w[2] > 0 THEN <<255, w[2] - 1, w[3], w[4]>>
  ELSE IF w[3] > 0 THEN <<255, 255, w[3] - 1, w[4]>>
  ELSE IF w[4] > 0 THEN <<255, 255, 255, w[4] - 1>>
  ELSE <<255, 255, 255, 255>>

(***************************************************************************)
(* hamming(): Kernighan's method                                           *)
(***************************************************************************)
\* one iteration of the loop body: x &= (x-1)
HammingStep(w) == AndWord(w, Dec32(w))

\* for (h = 0 ; x ; h++) x &= (x-1): the value of h when the loop ends,
\* from the values w of x and n of h at the loop test
HammingLoop[w \in Seq(0..255), n \in Nat] ==
  IF w = Zero THEN n ELSE HammingLoop[HammingStep(w), n + 1]

hamming(w) == HammingLoop[w, 0]

(***************************************************************************)
(* accept()                                                                *)
(***************************************************************************)
\* the value of a byte read through a char pointer, char being signed.  Where
\* char is unsigned both *p and the case labels lie in 0..255 and the switch
\* selects the same bytes.
CharValue(b) == IF b >= 128 THEN b - 256 ELSE b

\* the character constant '\255': an OCTAL escape, 2*64 + 5*8 + 5 = 173
Char_255 == CharValue(2 * 64 + 5 * 8 + 5)

\* the character constant '\0'
Char_0 == CharValue(0)

\* Mutation of RejectByte: the case '\0' label is missing
RejectByte_No0(c) == c = Char_255

\* the switch of the byte loop: case '\0': case '\255': return(0)
RejectByte(c) == c \in {Char_0, Char_255}

\* the body of accept(u) once h = hamming(u) is known: w is u, n is h
AcceptWith(w, n) ==
  IF (n < MIN) \/ (n > MAX) THEN 0
  ELSE IF \E k \in 1..4 : RejectByte(CharValue(w[k])) THEN 0
  ELSE 1

accept(w) == AcceptWith(w, hamming(w))

(***************************************************************************)
(* printf conversions.  Standard output is a sequence of chunks, a chunk   *)
(* being what one printf call writes: its literal text and the characters  *)
(* of its conversions, as a sequence of strings.                           *)
(***************************************************************************)
HexDigit == <<"0", "1", "2", "3", "4", "5", "6", "7",
              "8", "9", "a", "b", "c", "d", "e", "f">>

DecDigit == <<"0", "1", "2", "3", "4", "5", "6", "7", "8", "9">>

\* "%d" of a non-negative int
RECURSIVE FmtD(_)
FmtD(n) == IF n < 10 THEN <<DecDigit[n + 1]>>
           ELSE Append(FmtD(n \div 10), DecDigit[(n % 10) + 1])

\* "0x%08x" of a u32: eight lower-case digits, most significant first
Fmt0x08x(w) ==
  <<"0x", HexDigit[(w[4] \div 16) + 1], HexDigit[(w[4] % 16) + 1],
          HexDigit[(w[3] \div 16) + 1], HexDigit[(w[3] % 16) + 1],
          HexDigit[(w[2] \div 16) + 1], HexDigit[(w[2] % 16) + 1],
          HexDigit[(w[1] \div 16) + 1], HexDigit[(w[1] % 16) + 1]>>

\* the output of main() before the first block
PreambleText ==
  << <<"/* File generated by gen_random_init.c */\n\n">>,
     <<"#define INPUT_POOL_WORDS ">> \o FmtD(INPUT_POOL_WORDS) \o <<"\n">>,
     <<"#define OUTPUT_POOL_WORDS ">> \o FmtD(OUTPUT_POOL_WORDS) \o <<"\n">>,
     <<"#define INPUT_POOL_SHIFT ">> \o FmtD(INPUT_POOL_SHIFT) \o <<"\n\n">> >>

\* "static u32 %s[] = {\n"
BlockHeader(nm) == <<"static u32 ", nm, "[] = {\n">>

\* Mutation of Separator: the line is broken before, not after, every 8th value
Separator_OffByOne(j, n) ==
  IF j = n - 1 THEN <<" } ;\n">>
  ELSE IF (j % PER_LINE) = 0 THEN <<",\n">>
  ELSE <<", ">>

\* what follows value j (0-based) of a block of n words
Separator(j, n) ==
  IF j = n - 1 THEN <<" } ;\n">>
  ELSE IF (j % PER_LINE) = (PER_LINE - 1) THEN <<",\n">>
  ELSE <<", ">>

DiagOpen == "gen_random_init: no /dev/urandom, cannot continue\n"
DiagCalloc == "gen_random_init: calloc() failed, cannot continue\n"
DiagRead == "gen_random_int: read() failed, cannot contiue\n"

(***************************************************************************)
(* The entropy source.  read() may deliver any bytes; the model draws the  *)
(* words of the bulk read from BulkWords and the bytes of a replacement    *)
(* read from the leading bytes of a word of FreshWords.                    *)
(***************************************************************************)
BulkWords == { Zero, <<15, 15, 15, 15>>, <<255, 255, 255, 15>> }

FreshWords == { Zero, <<240, 240, 240, 240>> }

\* what read(urandom, p, 4) may return: an error, end of file, 1..4 bytes
ReadCounts == {-1, 0, 1, 2, 3, 4}

\* Mutation of ReadInto: the bytes read never reach the buffer
ReadInto_Discard(old, w, c) == old

\* the word at p after read() stored c bytes of w there
ReadInto(old, w, c) == [k \in 1..4 |-> IF k <= c THEN w[k] ELSE old[k]]

\* the words the buffer can hold: every mix of the bytes read() delivers
BufferWords ==
  LET bytes == { w[k] : w \in BulkWords \cup FreshWords, k \in 1..4 }
  IN  { <<a, b, c, d>> : a \in bytes, b \in bytes, c \in bytes, d \in bytes }

\* the words the buffer can hold on which accept() returns nonzero (the outer
\* set constructor makes this an enumerated set, computed once)
AcceptedWords == { w : w \in { v \in BufferWords : accept(v) # 0 } }

\* accept(*p), for a word the buffer holds
AcceptAt(w) == IF w \in AcceptedWords THEN 1 ELSE 0

(***************************************************************************)
(* State                                                                   *)
(***************************************************************************)
VARIABLES
  pc,       \* position of the program
  gcm,      \* whether the build defines CONFIG_RANDOM_GCM
  urandom,  \* the descriptor of /dev/urandom: 0 before open(), -1 on failure
  blk,      \* number of do_block() calls that have returned
  nwords,   \* do_block: parameter nwords
  name,     \* do_block: parameter name
  data,     \* do_block: the calloc()ed buffer, <<>> when there is none
  i,        \* do_block: loop index i (p = data + i)
  x,        \* do_block: x, the last return value of read()
  out,      \* standard output
  err,      \* the error stream
  status,   \* exit status, -1 while the process runs
  fpc,      \* position inside a call accept(u) examined on its own
  u,        \* accept: parameter u
  hx,       \* hamming: x
  h,        \* hamming: h, then accept: h
  ret       \* accept: return value

progvars == <<pc, gcm, urandom, blk, nwords, name, data, i, x, out, err, status>>
filtervars == <<fpc, u, hx, h, ret>>
vars == <<pc, gcm, urandom, blk, nwords, name, data, i, x, out, err, status,
          fpc, u, hx, h, ret>>

\* no call of accept() is being examined on its own
FilterIdle == fpc = "idle" /\ u = Zero /\ hx = Zero /\ h = 0 /\ ret = 0

\* the process at the start of main()
Init ==
  /\ pc = "open"
  /\ gcm \in BOOLEAN
  /\ urandom = 0
  /\ blk = 0
  /\ nwords = 0
  /\ name = ""
  /\ data = <<>>
  /\ i = 0
  /\ x = 0
  /\ out = <<>>
  /\ err = <<>>
  /\ status = -1
  /\ FilterIdle

\* exit(code): the process ends and its memory is gone
Exit(code) ==
  /\ pc' = "exited"
  /\ status' = code
  /\ data' = <<>>

(***************************************************************************)
(* main()                                                                  *)
(***************************************************************************)
OpenOk ==
  /\ pc = "open"
  /\ urandom' = 3
  /\ pc' = "preamble"
  /\ UNCHANGED <<gcm, blk, nwords, name, data, i, x, out, err, status>>
  /\ UNCHANGED filtervars

OpenFail ==
  /\ pc = "open"
  /\ urandom' = -1
  /\ err' = Append(err, DiagOpen)
  /\ Exit(1)
  /\ UNCHANGED <<gcm, blk, nwords, name, i, x, out>>
  /\ UNCHANGED filtervars

\* the lengths of the two blocks main() asks for, cut to the model's bounds
PoolsWords == Min2(TOTAL_POOL_WORDS, MaxPoolWords)
ConstantsWords == Min2(ARRAY_WORDS + 8, MaxConstWords)

\* the four printf calls of the preamble, then do_block(TOTAL_POOL_WORDS, "pools")
CallPools ==
  /\ pc = "preamble"
  /\ out' = out \o PreambleText
  /\ nwords' = PoolsWords
  /\ name' = "pools"
  /\ pc' = "calloc"
  /\ UNCHANGED <<gcm, urandom, blk, data, i, x, err, status>>
  /\ UNCHANGED filtervars

\* #ifdef CONFIG_RANDOM_GCM: do_block((ARRAY_WORDS + 8), "constants")
CallConstants ==
  /\ pc = "main"
  /\ blk = 1
  /\ gcm
  /\ out' = Append(out, <<"#define ARRAY_WORDS ">> \o FmtD(ARRAY_WORDS) \o <<"\n\n">>)
  /\ nwords' = ConstantsWords
  /\ name' = "constants"
  /\ pc' = "calloc"
  /\ UNCHANGED <<gcm, urandom, blk, data, i, x, err, status>>
  /\ UNCHANGED filtervars

\* the end of main(): exit(0)
MainExit ==
  /\ pc = "main"
  /\ blk = (IF gcm THEN 2 ELSE 1)
  /\ out' = IF gcm
            THEN Append(out, <<"static u32 *counter = constants + ARRAY_WORDS ;\n">>)
            ELSE out
  /\ Exit(0)
  /\ UNCHANGED <<gcm, urandom, blk, nwords, name, i, x, err>>
  /\ UNCHANGED filtervars

(***************************************************************************)
(* do_block()                                                              *)
(***************************************************************************)
\* nbytes = 4 * nwords
nbytes == 4 * nwords

\* calloc() returns a zeroed buffer
CallocOk ==
  /\ pc = "calloc"
  /\ data' = [k \in 1..nwords |-> Zero]
  /\ pc' = "read"
  /\ UNCHANGED <<gcm, urandom, blk, nwords, name, i, x, out, err, status>>
  /\ UNCHANGED filtervars

\* Mutation of CallocFail: the failure exits with status 0
CallocFail_Exit0 ==
  /\ pc = "calloc"
  /\ err' = Append(err, DiagCalloc)
  /\ Exit(0)
  /\ UNCHANGED <<gcm, urandom, blk, nwords, name, i, x, out>>
  /\ UNCHANGED filtervars

\* calloc() returns NULL
CallocFail ==
  /\ pc = "calloc"
  /\ err' = Append(err, DiagCalloc)
  /\ Exit(1)
  /\ UNCHANGED <<gcm, urandom, blk, nwords, name, i, x, out>>
  /\ UNCHANGED filtervars

\* x = read(urandom, data, nbytes) returns nbytes: the buffer is filled
BulkReadFull ==
  /\ pc = "read"
  /\ \E s \in [1..nwords -> BulkWords] : data' = s
  /\ x' = nbytes
  /\ pc' = "forinit"
  /\ UNCHANGED <<gcm, urandom, blk, nwords, name, i, out, err, status>>
  /\ UNCHANGED filtervars

\* Mutation of BulkReadShort: the return value of read() is not compared
BulkReadShort_Unchecked ==
  /\ pc = "read"
  /\ \E c \in -1..(nbytes - 1) : x' = c
  /\ pc' = "forinit"
  /\ UNCHANGED <<gcm, urandom, blk, nwords, name, data, i, out, err, status>>
  /\ UNCHANGED filtervars

\* x = read(urandom, data, nbytes) returns anything else: -1, or fewer bytes
BulkReadShort ==
  /\ pc = "read"
  /\ \E c \in -1..(nbytes - 1) : x' = c
  /\ err' = Append(err, DiagRead)
  /\ Exit(1)
  /\ UNCHANGED <<gcm, urandom, blk, nwords, name, i, out>>
  /\ UNCHANGED filtervars

\* the initialisation of the for loop: i = 0, x = 1, p = data
ForInit ==
  /\ pc = "forinit"
  /\ i' = 0
  /\ x' = 1
  /\ pc' = "for"
  /\ UNCHANGED <<gcm, urandom, blk, nwords, name, data, out, err, status>>
  /\ UNCHANGED filtervars

\* the condition of the for loop: x && (i < nwords)
ForTest ==
  /\ pc = "for"
  /\ pc' = IF (x # 0) /\ (i < nwords) THEN "while" ELSE "print"
  /\ UNCHANGED <<gcm, urandom, blk, nwords, name, data, i, x, out, err, status>>
  /\ UNCHANGED filtervars

\* Mutation of WhileRead: the read stores at data, not at p
WhileRead_AtData ==
  /\ pc = "while"
  /\ AcceptAt(data[i + 1]) = 0
  /\ \E c \in ReadCounts, w \in FreshWords :
       /\ x' = c
       /\ data' = [data EXCEPT ![1] = ReadInto(@, w, c)]
  /\ UNCHANGED <<pc, gcm, urandom, blk, nwords, name, i, out, err, status>>
  /\ UNCHANGED filtervars

\* while( !accept(*p) ) x = read( urandom, (char *) p, 4)
WhileRead ==
  /\ pc = "while"
  /\ AcceptAt(data[i + 1]) = 0
  /\ \E c \in ReadCounts, w \in FreshWords :
       /\ x' = c
       /\ data' = [data EXCEPT ![i + 1] = ReadInto(@, w, c)]
  /\ UNCHANGED <<pc, gcm, urandom, blk, nwords, name, i, out, err, status>>
  /\ UNCHANGED filtervars

\* Mutation of WhileExit: the loop also ends on a read of 4 bytes, accepted or not
WhileExit_OnFullRead ==
  /\ pc = "while"
  /\ (AcceptAt(data[i + 1]) # 0) \/ (x = 4)
  /\ i' = i + 1
  /\ pc' = "for"
  /\ UNCHANGED <<gcm, urandom, blk, nwords, name, data, x, out, err, status>>
  /\ UNCHANGED filtervars

\* accept(*p) holds: the while loop ends, then i++, p++
WhileExit ==
  /\ pc = "while"
  /\ AcceptAt(data[i + 1]) # 0
  /\ i' = i + 1
  /\ pc' = "for"
  /\ UNCHANGED <<gcm, urandom, blk, nwords, name, data, x, out, err, status>>
  /\ UNCHANGED filtervars

\* printf("static u32 %s[] = {\n", name), then the print loop starts at i = 0
PrintHeader ==
  /\ pc = "print"
  /\ out' = Append(out, BlockHeader(name))
  /\ i' = 0
  /\ pc' = "values"
  /\ UNCHANGED <<gcm, urandom, blk, nwords, name, data, x, err, status>>
  /\ UNCHANGED filtervars

\* one iteration of the print loop: the value, then what follows it
PrintValue ==
  /\ pc = "values"
  /\ i < nwords
  /\ out' = out \o << Fmt0x08x(data[i + 1]), Separator(i, nwords) >>
  /\ i' = i + 1
  /\ UNCHANGED <<pc, gcm, urandom, blk, nwords, name, data, x, err, status>>
  /\ UNCHANGED filtervars

\* the print loop is over: printf("\n"), free(data), return to main()
PrintEnd ==
  /\ pc = "values"
  /\ i >= nwords
  /\ out' = Append(out, <<"\n">>)
  /\ data' = <<>>
  /\ blk' = blk + 1
  /\ pc' = "main"
  /\ UNCHANGED <<gcm, urandom, nwords, name, i, x, err, status>>
  /\ UNCHANGED filtervars

Next ==
  \/ OpenOk
  \/ OpenFail
  \/ CallPools
  \/ CallConstants
  \/ MainExit
  \/ CallocOk
  \/ CallocFail
  \/ BulkReadFull
  \/ BulkReadShort
  \/ ForInit
  \/ ForTest
  \/ WhileRead
  \/ WhileExit
  \/ PrintHeader
  \/ PrintValue
  \/ PrintEnd

Spec == Init /\ [][Next]_vars

(***************************************************************************)
(* The replacement phase under the assumptions of a good run: the source   *)
(* opens, calloc() succeeds, the bulk reads are complete, and a rejected   *)
(* position is eventually offered a word that accept() accepts.            *)
(***************************************************************************)
\* a replacement read after which the word at p is accepted
GoodRead == WhileRead /\ AcceptAt(data'[i + 1]) # 0

LiveNext ==
  \/ OpenOk
  \/ CallPools
  \/ CallConstants
  \/ MainExit
  \/ CallocOk
  \/ BulkReadFull
  \/ ForInit
  \/ ForTest
  \/ WhileRead
  \/ WhileExit
  \/ PrintHeader
  \/ PrintValue
  \/ PrintEnd

SpecLive == Init /\ [][LiveNext]_vars /\ WF_vars(LiveNext) /\ SF_vars(GoodRead)

(***************************************************************************)
(* The print phase of do_block() on its own, for every block length up to  *)
(* MaxPrintWords: the process is at the printf of the array header of the  *)
(* first block, the buffer holding accepted words.                         *)
(***************************************************************************)
\* an accepted word that differs from one index to the next
SampleWord(k, s) == <<16 + k, 240 - s, 51 + s, 15 + k>>

InitPrint ==
  /\ pc = "print"
  /\ gcm = FALSE
  /\ urandom = 3
  /\ blk = 0
  /\ nwords \in 1..MaxPrintWords
  /\ name = "pools"
  /\ \E s \in 0..2 : data = [k \in 1..nwords |-> SampleWord(k, s)]
  /\ \A k \in 1..nwords : accept(data[k]) # 0
  /\ i = nwords
  /\ x = 1
  /\ out = PreambleText
  /\ err = <<>>
  /\ status = -1
  /\ FilterIdle

NextPrint ==
  \/ PrintHeader
  \/ PrintValue
  \/ PrintEnd
  \/ MainExit

SpecPrint == InitPrint /\ [][NextPrint]_vars

(***************************************************************************)
(* One call accept(u) on its own, hamming() run iteration by iteration,    *)
(* for every word u made of the bytes FilterBytes.                         *)
(***************************************************************************)
FilterBytes == {0, 1, 15, 128, 173, 247, 255}

FilterWords == { <<a, b, c, d>> : a \in FilterBytes, b \in FilterBytes,
                                  c \in FilterBytes, d \in FilterBytes }

InitFilter ==
  /\ pc = "filter"
  /\ gcm = FALSE
  /\ urandom = 0
  /\ blk = 0
  /\ nwords = 0
  /\ name = ""
  /\ data = <<>>
  /\ i = 0
  /\ x = 0
  /\ out = <<>>
  /\ err = <<>>
  /\ status = -1
  /\ fpc = "accept"
  /\ u \in FilterWords
  /\ hx = Zero
  /\ h = 0
  /\ ret = 0

\* accept: h = hamming(u) is called; hamming: h = 0
HammingCall ==
  /\ fpc = "accept"
  /\ hx' = u
  /\ h' = 0
  /\ fpc' = "hamming"
  /\ UNCHANGED <<u, ret>>
  /\ UNCHANGED progvars

\* hamming: the loop condition x holds: x &= (x-1), h++
HammingIter ==
  /\ fpc = "hamming"
  /\ hx # Zero
  /\ hx' = HammingStep(hx)
  /\ h' = h + 1
  /\ UNCHANGED <<fpc, u, ret>>
  /\ UNCHANGED progvars

\* hamming: x is zero: return(h)
HammingReturn ==
  /\ fpc = "hamming"
  /\ hx = Zero
  /\ fpc' = "weighed"
  /\ UNCHANGED <<u, hx, h, ret>>
  /\ UNCHANGED progvars

\* accept: the two tests on u, with h in hand
AcceptReturn ==
  /\ fpc = "weighed"
  /\ ret' = AcceptWith(u, h)
  /\ fpc' = "returned"
  /\ UNCHANGED <<u, hx, h>>
  /\ UNCHANGED progvars

NextFilter ==
  \/ HammingCall
  \/ HammingIter
  \/ HammingReturn
  \/ AcceptReturn

SpecFilter == InitFilter /\ [][NextFilter]_vars

(***************************************************************************)
(* Notions the properties are stated in, defined without the program's     *)
(* operators.                                                              *)
(***************************************************************************)
\* the number of set bits of a byte and of a word, bit by bit
PopCount8(b) == Bit(b, 0) + Bit(b, 1) + Bit(b, 2) + Bit(b, 3)
              + Bit(b, 4) + Bit(b, 5) + Bit(b, 6) + Bit(b, 7)
PopCount(w) == PopCount8(w[1]) + PopCount8(w[2]) + PopCount8(w[3]) + PopCount8(w[4])

\* a chunk that is a value: "0x" and eight hexadecimal digits
HexChars == {"0", "1", "2", "3", "4", "5", "6", "7",
             "8", "9", "a", "b", "c", "d", "e", "f"}
IsValue(c) == Len(c) = 9 /\ c[1] = "0x" /\ \A j \in 2..9 : c[j] \in HexChars

\* the word a value chunk denotes
HexVal(d) ==
  CASE d = "0" -> 0  [] d = "1" -> 1  [] d = "2" -> 2  [] d = "3" -> 3
    [] d = "4" -> 4  [] d = "5" -> 5  [] d = "6" -> 6  [] d = "7" -> 7
    [] d = "8" -> 8  [] d = "9" -> 9  [] d = "a" -> 10 [] d = "b" -> 11
    [] d = "c" -> 12 [] d = "d" -> 13 [] d = "e" -> 14 [] d = "f" -> 15
ParseValue(c) == << 16 * HexVal(c[8]) + HexVal(c[9]), 16 * HexVal(c[6]) + HexVal(c[7]),
                    16 * HexVal(c[4]) + HexVal(c[5]), 16 * HexVal(c[2]) + HexVal(c[3]) >>

\* a chunk that ends a line
IsLineBreak(c) == c \in { <<",\n">>, <<" } ;\n">>, <<"\n">> }

\* a chunk that declares an array
IsHeader(c) == Len(c) = 3 /\ c[1] = "static u32 " /\ c[3] = "[] = {\n"

\* the index of the last array declaration of o, 0 when there is none
LastHeader(o) ==
  LET hs == { k \in 1..Len(o) : IsHeader(o[k]) }
  IN  IF hs = {} THEN 0 ELSE CHOOSE k \in hs : \A m \in hs : m <= k

\* the indices of the values of o
Values(o) == { k \in 1..Len(o) : IsValue(o[k]) }

\* the numbers of values on the lines of o from chunk k on (cur: on the open line)
RECURSIVE LineSizes(_, _, _)
LineSizes(o, k, cur) ==
  IF k > Len(o) THEN (IF cur > 0 THEN <<cur>> ELSE <<>>)
  ELSE IF IsValue(o[k]) THEN LineSizes(o, k + 1, cur + 1)
  ELSE IF IsLineBreak(o[k])
       THEN (IF cur > 0 THEN <<cur>> ELSE <<>>) \o LineSizes(o, k + 1, 0)
  ELSE LineSizes(o, k + 1, cur)

\* o holds the whole array nm of n values: declaration, values, closing
Printed(o, nm, n) ==
  \E b \in 1..Len(o) :
    /\ b + 2 * n + 1 <= Len(o)
    /\ o[b] = <<"static u32 ", nm, "[] = {\n">>
    /\ \A k \in 1..n : IsValue(o[b + 2 * k - 1]) /\ ~IsValue(o[b + 2 * k])
    /\ o[b + 2 * n] = <<" } ;\n">>
    /\ o[b + 2 * n + 1] = <<"\n">>

AllBlocksPrinted ==
  /\ Printed(out, "pools", PoolsWords)
  /\ gcm => Printed(out, "constants", ConstantsWords)

(***************************************************************************)
(* Properties                                                              *)
(***************************************************************************)

\* C1: accept(w) returns accepted if and only if 8 <= popcount(w) <= 24 and
\* each of the four bytes of w is neither 0x00 nor 0xFF.  (Refuted: the code
\* tests for '\255', which is the byte 0xAD, so it accepts words holding a
\* 0xFF byte and rejects words holding a 0xAD byte.)
C1_AcceptIffWeightAndBytes ==
  fpc = "returned" =>
    ((ret # 0) <=> /\ PopCount(u) >= 8
                   /\ PopCount(u) <= 24
                   /\ \A k \in 1..4 : u[k] # 0 /\ u[k] # 255)

\* C7: accept() never accepts a word whose population count is below 8 or
\* above 24, and never accepts a word with a 0x00 byte in any position.
C7_NeverAcceptsBadWeightOrZeroByte ==
  (fpc = "returned" /\ ret # 0) =>
    /\ PopCount(u) >= 8
    /\ PopCount(u) <= 24
    /\ \A k \in 1..4 : u[k] # 0

\* C7 witness: 0x00FFFF00, population count 16, has been rejected
C7_Witness == fpc = "returned" /\ u = <<0, 255, 255, 0>> /\ ret = 0

\* C10: hamming(x) returns the number of set bits of x after exactly
\* popcount(x) iterations, each clearing one set bit, with x reaching zero.
C10_HammingIsPopCount ==
  /\ fpc = "hamming" => h + PopCount(hx) = PopCount(u)
  /\ fpc \in {"weighed", "returned"} => (h = PopCount(u) /\ hx = Zero)

\* C10 witness: hamming(0xFFFF0100) has returned 17 (the decrement borrowed
\* across a zero byte)
C10_Witness == fpc = "weighed" /\ u = <<0, 1, 255, 255>> /\ h = 17

\* C2: when do_block reaches its print phase, every one of the nwords
\* positions of the buffer holds a word that accept() accepts.
C2_PrintedBufferAllAccepted ==
  pc \in {"print", "values"} =>
    /\ Len(data) = nwords
    /\ \A k \in 1..nwords : accept(data[k]) # 0

\* C2 witness: the print phase of a block of two words or more is reached
\* with the last replacement read having returned 2 bytes
C2_Witness == pc = "print" /\ nwords >= 2 /\ x = 2

\* C3: a bulk read that returns anything but 4*nwords ends the process at
\* once with status 1 and one more diagnostic, standard output as it was;
\* nothing is ever written after the process has ended.
C3_ShortBulkReadFatal ==
  [][ /\ (pc = "read" /\ x' # nbytes) =>
           /\ pc' = "exited"
           /\ status' = 1
           /\ err' = Append(err, DiagRead)
           /\ out' = out
      /\ pc = "exited" => (out' = out /\ pc' = pc /\ status' = status) ]_vars

\* C3 witness: the process has ended on a short read (2 bytes) of the second
\* block, the first block printed
C3_Witness ==
  /\ pc = "exited" /\ status = 1 /\ err = <<DiagRead>> /\ x = 2
  /\ blk = 1 /\ Printed(out, "pools", PoolsWords) /\ LastHeader(out) = 5

\* C4: a run ends with status 0 or 1; 0 exactly when the source was opened
\* and every requested block was printed in full; 1 whenever a diagnostic
\* (open, calloc, read) was written.
C4_ExitStatus ==
  /\ pc # "exited" => status = -1
  /\ pc = "exited" =>
       /\ status \in {0, 1}
       /\ (status = 0) <=> (urandom # -1 /\ AllBlocksPrinted)
       /\ (status = 1) <=> (err \in {<<DiagOpen>>, <<DiagCalloc>>, <<DiagRead>>})
       /\ (status = 0) <=> (err = <<>>)
       /\ (urandom = -1) <=> (err = <<DiagOpen>>)

\* C4 witness: an extended-mode run has ended with status 0
C4_Witness == pc = "exited" /\ status = 0 /\ gcm /\ blk = 2

\* C5: a 4-byte replacement read that returns fewer than 4 bytes (0 and -1
\* included) ends the process with status 1 and a diagnostic.  (Refuted: the
\* return value is stored in x and the loop goes on.)
C5_ShortReplacementReadFatal ==
  [][ (pc = "while" /\ accept(data[i + 1]) = 0 /\ x' # 4) =>
        (pc' = "exited" /\ status' = 1 /\ Len(err') = Len(err) + 1) ]_vars

\* C6: a generated block writes exactly nwords values of 8 hexadecimal digits
\* each, in buffer order, with a line break after every 8th value, so every
\* line of values but the last holds exactly 8.
C6_NValuesEightPerLine ==
  LET b == LastHeader(out)
      ls == LineSizes(out, b + 1, 0)
  IN  /\ pc = "values" =>
           /\ Len(out) = b + 2 * i
           /\ \A k \in 1..i :
                /\ IsValue(out[b + 2 * k - 1])
                /\ ParseValue(out[b + 2 * k - 1]) = data[k]
                /\ ~IsValue(out[b + 2 * k])
                /\ IsLineBreak(out[b + 2 * k]) <=> (k % 8 = 0 \/ k = nwords)
      /\ pc \in {"main", "exited"} =>
           /\ Cardinality({ k \in Values(out) : k > b }) = nwords
           /\ Len(ls) >= 1
           /\ \A j \in 1..(Len(ls) - 1) : ls[j] = 8
           /\ ls[Len(ls)] \in 1..8

\* C6 witness: a block of more than 16 values has been printed
C6_Witness == pc = "main" /\ nwords > 16 /\ Len(LineSizes(out, 6, 0)) = 3

\* C8: when the source opens, calloc() succeeds, the bulk reads are complete
\* and a rejected position is eventually offered an accepted word, the run
\* prints all its blocks and ends with status 0; the replacement loop leaves
\* a position only when its word is accepted.
C8_GoodRunTerminates ==
  /\ [][ (pc = "while" /\ pc' # "while") => accept(data[i + 1]) # 0 ]_vars
  /\ <>(pc = "exited" /\ status = 0 /\ AllBlocksPrinted)

\* C8 witness: a run has ended with status 0 having printed a word that no
\* bulk read delivers, that is a word made by replacement reads
C8_Witness ==
  /\ pc = "exited" /\ status = 0
  /\ \E k \in Values(out) : ParseValue(out[k]) \notin BulkWords

\* C9: between the bulk read and the end of printing, the only word that
\* changes is the word under examination, and only while accept() rejects
\* it; the print loop writes the word at index i as its i-th value.
C9_OnlyRejectedPositionChanges ==
  [][ /\ (pc \in {"for", "while", "print", "values"} /\ pc' # "exited") =>
           /\ Len(data') = Len(data) \/ (pc = "values" /\ pc' = "main")
           /\ Len(data') = Len(data) =>
                \A k \in 1..Len(data) :
                  data'[k] # data[k] =>
                    (pc = "while" /\ k = i + 1 /\ accept(data[k]) = 0)
      /\ (pc = "values" /\ pc' = "values") =>
           /\ ParseValue(out'[Len(out) + 1]) = data[i + 1]
           /\ Cardinality({ k \in Values(out') : k > LastHeader(out') }) = i + 1 ]_vars

\* C9 witness: a block is printed whose first word is the accepted word the
\* bulk read delivered and whose second word was made by replacement reads
C9_Witness ==
  /\ pc = "values" /\ i = nwords /\ nwords >= 2
  /\ data[1] = <<15, 15, 15, 15>> /\ data[2] \notin BulkWords
  /\ ParseValue(out[LastHeader(out) + 1]) = <<15, 15, 15, 15>>

=============================================================================
